---- MODULE Spec2Model ----
(***************************************************************************)
(* Model of package_analyzer.py: a command-line tool that reports the      *)
(* direct dependencies a Python package declares.                          *)
(*                                                                         *)
(* A Python string is a sequence of characters, each character a TLA+      *)
(* string: the character itself when TLA+ can spell it ("a", " ", "\f"),   *)
(* otherwise its code point ("U+00A0").  A Python value the program may    *)
(* meet where it expects a list of strings is a record [type, value].      *)
(***************************************************************************)
EXTENDS Integers, Sequences, FiniteSets, TLC

VARIABLES
    pc,            \* position of the main flow (lines 176-198)
    args,          \* the parsed command line (argparse namespace)
    errors,        \* validate_args: the list `errors`
    exitCode,      \* process exit status, -1 while the process runs
    tmp,           \* the TemporaryDirectory of repo_context: none / live / released
    dirs,          \* directories that exist on disk, by path
    root,          \* manifest files found under the package root
    rootPath,      \* the path repo_context yielded
    requirements,  \* the value extract_direct_dependencies returned
    filtered,      \* the display list of the main flow
    log,           \* warnings printed to stderr by extract_direct_dependencies
    calls,         \* how often repo_context / extract_direct_dependencies were entered
    req,           \* normalizer runs: the specifier given to get_dep_name
    name1,         \* normalizer runs: get_dep_name(req)
    name2          \* normalizer runs: get_dep_name(get_dep_name(req))

vars == <<pc, args, errors, exitCode, tmp, dirs, root, rootPath, requirements,
          filtered, log, calls, req, name1, name2>>

normVars == <<req, name1, name2>>

----------------------------------------------------------------------------
(* Bounds *)

MaxSpecLen == 3
MaxDeps == 3
MaxList == 2
MaxFilterLen == 2

----------------------------------------------------------------------------
(* Character helpers: str.lower, str.strip, str.split(sep)[0], `in`        *)

Uppers == <<"A","B","C","D","E","F","G","H","I","J","K","L","M",
            "N","O","P","Q","R","S","T","U","V","W","X","Y","Z">>

Lowers == <<"a","b","c","d","e","f","g","h","i","j","k","l","m",
            "n","o","p","q","r","s","t","u","v","w","x","y","z">>

Digits == {"0","1","2","3","4","5","6","7","8","9"}

\* the characters str.strip() removes (those with str.isspace())
Whitespace ==
    {" ", "\t", "\n", "\r", "\f", "U+000B", "U+001C", "U+001D", "U+001E", "U+001F",
     "U+0085", "U+00A0", "U+1680", "U+2000", "U+2001", "U+2002", "U+2003",
     "U+2004", "U+2005", "U+2006", "U+2007", "U+2008", "U+2009", "U+200A",
     "U+2028", "U+2029", "U+202F", "U+205F", "U+3000"}

Range(f) == {f[i] : i \in DOMAIN f}

\* The characters of the model are the ASCII characters and the non-ASCII
\* characters named in Whitespace, Cased and CaseIgnorable.
\* str.lower() for the non-ASCII characters: E acute, Kelvin sign (to ASCII
\* k), I with dot above (to two characters); capital sigma is context
\* dependent and handled in Lower
NonAsciiLower ==
    [c \in {"U+00C9", "U+212A", "U+0130"} |->
        CASE c = "U+00C9" -> <<"U+00E9">>
          [] c = "U+212A" -> <<"k">>
          [] c = "U+0130" -> <<"i", "U+0307">>]

\* c.lower() for a one-character string c other than capital sigma: a
\* string of one or two characters
LowerChar(c) ==
    IF \E i \in 1..26 : Uppers[i] = c
    THEN <<Lowers[CHOOSE i \in 1..26 : Uppers[i] = c]>>
    ELSE IF c \in DOMAIN NonAsciiLower THEN NonAsciiLower[c]
    ELSE <<c>>

\* the characters of the model with the Unicode property Cased
Cased ==
    Range(Uppers) \cup Range(Lowers)
    \cup {"U+00C9", "U+00E9", "U+212A", "U+0130", "U+03A3", "U+03C3", "U+03C2"}

\* the characters of the model with the Unicode property Case_Ignorable
\* (U+0060 is the grave accent of ASCII)
CaseIgnorable == {"'", ".", ":", "^", "U+0060", "U+0307"}

\* str.lower() turns a capital sigma into the final form when a cased
\* character precedes it and none follows it, case-ignorable characters
\* skipped on both sides
FinalSigma(s, i) ==
    LET before == {j \in 1..(i - 1) : s[j] \notin CaseIgnorable}
        after  == {j \in (i + 1)..Len(s) : s[j] \notin CaseIgnorable}
    IN  /\ before # {}
        /\ s[CHOOSE j \in before : \A k \in before : k <= j] \in Cased
        /\ \/ after = {}
           \/ s[CHOOSE j \in after : \A k \in after : j <= k] \notin Cased

RECURSIVE LowerFrom(_, _)
LowerFrom(s, i) ==
    IF i > Len(s) THEN <<>>
    ELSE (IF s[i] = "U+03A3"
          THEN <<IF FinalSigma(s, i) THEN "U+03C2" ELSE "U+03C3">>
          ELSE LowerChar(s[i])) \o LowerFrom(s, i + 1)

\* s.lower()
Lower(s) == LowerFrom(s, 1)

RECURSIVE LStrip(_)
LStrip(s) ==
    IF s # <<>> /\ Head(s) \in Whitespace THEN LStrip(Tail(s)) ELSE s

RECURSIVE RStrip(_)
RStrip(s) ==
    IF s # <<>> /\ s[Len(s)] \in Whitespace
    THEN RStrip(SubSeq(s, 1, Len(s) - 1))
    ELSE s

Strip(s) == RStrip(LStrip(s))

\* s.split(sep)[0] and re.split(charclass, s)[0]: the part before the first
\* character that belongs to seps.
RECURSIVE SplitFirst(_, _)
SplitFirst(s, seps) ==
    IF s = <<>> \/ Head(s) \in seps
    THEN <<>>
    ELSE <<Head(s)>> \o SplitFirst(Tail(s), seps)

\* Python's `sub in s` for strings
Contains(s, sub) ==
    \E k \in 0..(Len(s) - Len(sub)) : SubSeq(s, k + 1, k + Len(sub)) = sub

RECURSIVE Join(_, _)
Join(parts, sep) ==
    IF parts = <<>> THEN <<>>
    ELSE IF Len(parts) = 1 THEN parts[1]
    ELSE parts[1] \o sep \o Join(Tail(parts), sep)

StringsUpTo(alphabet, n) == UNION {[1..k -> alphabet] : k \in 0..n}

SeqsUpTo(S, n) == UNION {[1..k -> S] : k \in 0..n}

----------------------------------------------------------------------------
(* Python values.  "int" stands for every value that is neither iterable *)
(* nor has .append / .split (int, float, bool, a date, an AST node as list *)
(* entry); a dict is held by the sequence of its keys.                     *)

Str(s)  == [type |-> "str",  value |-> s]
List(x) == [type |-> "list", value |-> x]
PyInt(n) == [type |-> "int",  value |-> n]
Dict(k) == [type |-> "dict", value |-> k]

\* bool(v)
Truthy(v) == IF v.type = "int" THEN v.value # 0 ELSE v.value # <<>>

\* the values `for x in v` produces; v is not an "int"
Elements(v) ==
    IF v.type = "str" THEN [i \in 1..Len(v.value) |-> Str(<<v.value[i]>>)]
    ELSE v.value

----------------------------------------------------------------------------
(* get_dep_name, lines 56-59, for the characters of a str argument *)

OperatorChars == {"~", "=", ">", "<", "!"}

get_dep_name_keeps_bang(s) ==
    LET n1 == Strip(SplitFirst(SplitFirst(s, {"["}), {";"}))
    IN  Strip(SplitFirst(n1, {"~", "=", ">", "<"}))

get_dep_name_no_final_strip(s) ==
    LET n1 == Strip(SplitFirst(SplitFirst(s, {"["}), {";"}))
    IN  SplitFirst(n1, OperatorChars)

get_dep_name(s) ==
    LET n1 == Strip(SplitFirst(SplitFirst(s, {"["}), {";"}))
    IN  Strip(SplitFirst(n1, OperatorChars))

----------------------------------------------------------------------------
(* validate_args, lines 16-53 *)

NameChars == Range(Uppers) \cup Range(Lowers) \cup Digits \cup {"_", "-"}

\* str.replace(c, "") for every c in drop
RemoveChars(s, drop) == SelectSeq(s, LAMBDA c : c \notin drop)

\* re.match(r'^[A-Za-z0-9_-]+$', s): `$` also matches before a final newline
MatchesNamePattern(s) ==
    LET body == IF s # <<>> /\ s[Len(s)] = "\n" THEN SubSeq(s, 1, Len(s) - 1) ELSE s
    IN  /\ body # <<>>
        /\ \A i \in 1..Len(body) : body[i] \in NameChars

RemoteSchemes == {"http", "https", "git", "git+http", "git+https"}

SupportedArchives == {".zip", ".tar.gz", ".tar", ".tar.bz2", ".whl"}

Msg(kind, path) == [kind |-> kind, path |-> path]

NameErrors(a) ==
    IF a.package_name = <<>>
    THEN <<Msg("name-empty", "")>>
    ELSE IF ~MatchesNamePattern(RemoveChars(a.package_name, {"-", "_"}))
         THEN <<Msg("name-invalid", "")>>
         ELSE <<>>

\* lines 29-43; raised: urlparse(repo) at line 32 raised ValueError (it does
\* for a URL such as http://[::1), which nothing catches
RepoErrors(a) ==
    CASE a.mode = "remote" ->
            IF ~a.repo.parses
            THEN [raised |-> TRUE, errors |-> <<>>]
            ELSE [raised |-> FALSE,
                  errors |-> IF a.repo.scheme = "" \/ a.repo.scheme \notin RemoteSchemes
                             THEN <<Msg("remote-url", "")>> ELSE <<>>]
      [] a.mode = "local-dir" ->
            [raised |-> FALSE,
             errors |-> IF ~a.repo.isdir
                        THEN <<Msg("not-a-directory", a.repo.path)>> ELSE <<>>]
      [] a.mode = "local-file" ->
            [raised |-> FALSE,
             errors |-> (IF ~a.repo.isfile
                         THEN <<Msg("not-a-file", a.repo.path)>> ELSE <<>>)
                        \o (IF a.repo.suffix \notin SupportedArchives
                            THEN <<Msg("unsupported-archive", "")>> ELSE <<>>)]

FilterErrors(a) ==
    IF ~a.filter_is_str THEN <<Msg("filter-not-str", "")>> ELSE <<>>

\* errors: the list `errors` when the function is left, at line 49 or by the
\* exception of line 32; it is printed (lines 50-52) only when not raised
validate_args(a) ==
    LET r == RepoErrors(a)
    IN  IF r.raised
        THEN [raised |-> TRUE, errors |-> NameErrors(a)]
        ELSE [raised |-> FALSE,
              errors |-> NameErrors(a) \o r.errors \o FilterErrors(a)]

----------------------------------------------------------------------------
(* extract_direct_dependencies, lines 62-128 *)

PythonName == <<"p", "y", "t", "h", "o", "n">>

\* requirements.append(x): only a list has .append
CanAppend(v) == v.type = "list"

PyAppend(v, x) == [v EXCEPT !.value = Append(@, x)]

\* The Poetry loop, lines 79-88, over the entries deps, with acc the value
\* of `requirements`.  raised: an exception ended the loop, either the join
\* of extras that hold a non-string (line 86) or .append on a value that is
\* no list (lines 83, 88); it is caught at line 89.
RECURSIVE PoetryLoop(_, _)
PoetryLoop(deps, acc) ==
    IF deps = <<>> THEN [out |-> acc, raised |-> FALSE]
    ELSE LET e == Head(deps) IN
         IF Lower(e.name) = PythonName THEN PoetryLoop(Tail(deps), acc)
         ELSE IF e.kind = "str"
              THEN IF ~CanAppend(acc) THEN [out |-> acc, raised |-> TRUE]
                   ELSE PoetryLoop(Tail(deps), PyAppend(acc, Str(e.name \o e.version)))
         ELSE IF e.kind = "table"
              THEN LET version == IF e.hasVersion THEN e.version ELSE <<>>
                   IN  IF ~e.extrasJoinable \/ ~CanAppend(acc)
                       THEN [out |-> acc, raised |-> TRUE]
                       ELSE LET extras == Join(e.extras, <<",">>)
                                extras_str == IF extras # <<>>
                                              THEN <<"[">> \o extras \o <<"]">>
                                              ELSE <<>>
                            IN  PoetryLoop(Tail(deps),
                                    PyAppend(acc, Str(e.name \o extras_str \o version)))
         ELSE PoetryLoop(Tail(deps), acc)

\* lines 66-90, the pyproject.toml block.  raised: open() at line 68, which
\* is outside the try of line 69, failed on a pyproject.toml that exists but
\* cannot be opened (a directory, no permission).
PyprojectStep(doc) ==
    CASE doc.state = "absent" ->
            [requirements |-> List(<<>>), log |-> <<>>, raised |-> FALSE]
      [] doc.state = "unopenable" ->
            [requirements |-> List(<<>>), log |-> <<>>, raised |-> TRUE]
      [] doc.state = "malformed" ->
            [requirements |-> List(<<>>), log |-> <<"pyproject.toml">>, raised |-> FALSE]
      [] doc.state = "ok" ->
            LET pep == IF doc.hasProjectDeps THEN doc.projectDeps ELSE List(<<>>)
            IN  IF ~Truthy(pep) /\ doc.hasPoetry
                THEN LET r == PoetryLoop(doc.poetryDeps, pep)
                     IN  [requirements |-> r.out,
                          log |-> IF r.raised THEN <<"pyproject.toml">> ELSE <<>>,
                          raised |-> FALSE]
                ELSE [requirements |-> pep, log |-> <<>>, raised |-> FALSE]

\* lines 99-102: the lines of install_requires that become specifiers
CfgLines(lines) ==
    LET stripped == [i \in 1..Len(lines) |-> Strip(lines[i])]
        kept == SelectSeq(stripped, LAMBDA l : l # <<>> /\ Head(l) # "#")
    IN  [i \in 1..Len(kept) |-> Str(kept[i])]

\* lines 93-102, the setup.cfg block, with acc the value of `requirements`.
\* ConfigParser.read skips a file it cannot open; its parse errors (and the
\* interpolation errors of cp.get) are caught nowhere, nor is .append on a
\* value that is no list.
SetupCfgStep(cfg, acc) ==
    IF cfg.state \in {"absent", "unopenable"} \/ Truthy(acc)
    THEN [out |-> acc, raised |-> FALSE]
    ELSE IF cfg.state = "malformed" THEN [out |-> acc, raised |-> TRUE]
    ELSE IF ~cfg.hasInstallRequires \/ CfgLines(cfg.lines) = <<>>
         THEN [out |-> acc, raised |-> FALSE]
    ELSE IF ~CanAppend(acc) THEN [out |-> acc, raised |-> TRUE]
    ELSE [out |-> [acc EXCEPT !.value = @ \o CfgLines(cfg.lines)], raised |-> FALSE]

\* lines 118-122 for the setup(...) calls of the tree, in visiting order.
\* raised: AttributeError, from an element with neither .value nor .s (line
\* 121) or from .append on a value that is no list (line 122).
RECURSIVE VisitElts(_, _)
VisitElts(elts, acc) ==
    IF elts = <<>> THEN [out |-> acc, raised |-> FALSE]
    ELSE IF Head(elts).hasValue /\ CanAppend(acc)
         THEN VisitElts(Tail(elts), PyAppend(acc, Head(elts).value))
         ELSE [out |-> acc, raised |-> TRUE]

RECURSIVE VisitCalls(_, _)
VisitCalls(setupCalls, acc) ==
    IF setupCalls = <<>> THEN [out |-> acc, raised |-> FALSE]
    ELSE LET c == Head(setupCalls)
             r == IF c.hasList THEN VisitElts(c.elts, acc)
                  ELSE [out |-> acc, raised |-> FALSE]
         IN  IF r.raised THEN r ELSE VisitCalls(Tail(setupCalls), r.out)

\* lines 105-126, the setup.py block, with acc the value of `requirements`.
\* raised: open() / read() at lines 107-108, outside the try of line 109,
\* failed (a directory, bytes that are not UTF-8).  A SyntaxError and the
\* visitor's exceptions are caught at line 125.
SetupPyStep(py, acc) ==
    IF py.state = "absent" \/ Truthy(acc)
    THEN [out |-> acc, log |-> <<>>, raised |-> FALSE]
    ELSE IF py.state \in {"unopenable", "undecodable"}
         THEN [out |-> acc, log |-> <<>>, raised |-> TRUE]
    ELSE IF py.state = "syntax_error"
         THEN [out |-> acc, log |-> <<"setup.py">>, raised |-> FALSE]
    ELSE LET v == VisitCalls(py.calls, acc)
         IN  [out |-> v.out,
              log |-> IF v.raised THEN <<"setup.py">> ELSE <<>>,
              raised |-> FALSE]

\* raised: an exception left the function; requirements: the value returned
\* at line 128 otherwise; log: the warnings of lines 90 and 126.
extract_direct_dependencies(r) ==
    LET s1 == PyprojectStep(r.pyproject)
        s2 == SetupCfgStep(r.setup_cfg, s1.requirements)
        s3 == SetupPyStep(r.setup_py, s2.out)
    IN  IF s1.raised \/ s2.raised
        THEN [raised |-> TRUE, requirements |-> List(<<>>), log |-> s1.log]
        ELSE IF s3.raised
        THEN [raised |-> TRUE, requirements |-> List(<<>>), log |-> s1.log]
        ELSE [raised |-> FALSE, requirements |-> s3.out, log |-> s1.log \o s3.log]

----------------------------------------------------------------------------
(* The filter step of the main flow, lines 188-190 *)

FilterDeps_case_sensitive(reqs, f) ==
    IF f = <<>> THEN [raised |-> FALSE, filtered |-> reqs]
    ELSE IF reqs.type = "int" THEN [raised |-> TRUE, filtered |-> reqs]
    ELSE IF \E i \in 1..Len(Elements(reqs)) : Elements(reqs)[i].type # "str"
         THEN [raised |-> TRUE, filtered |-> reqs]
    ELSE [raised |-> FALSE,
          filtered |-> List(SelectSeq(Elements(reqs),
                          LAMBDA q : Contains(get_dep_name(q.value), f)))]

\* raised: the comprehension of line 190 raised, TypeError for a value that
\* cannot be iterated, AttributeError in get_dep_name for an entry that is
\* no str.
FilterDeps(reqs, f) ==
    IF f = <<>> THEN [raised |-> FALSE, filtered |-> reqs]
    ELSE IF reqs.type = "int" THEN [raised |-> TRUE, filtered |-> reqs]
    ELSE IF \E i \in 1..Len(Elements(reqs)) : Elements(reqs)[i].type # "str"
         THEN [raised |-> TRUE, filtered |-> reqs]
    ELSE [raised |-> FALSE,
          filtered |-> List(SelectSeq(Elements(reqs),
                          LAMBDA q : Contains(Lower(get_dep_name(q.value)), Lower(f))))]

\* lines 194-196: `for req in filtered` under `if filtered` raises TypeError
\* for a value that is true and cannot be iterated
ReportRaises(shown) == Truthy(shown) /\ shown.type = "int"

----------------------------------------------------------------------------
(* repo_context, lines 131-167 *)

TempDir == "tmp"

NestedDir == "tmp/sub"

\* the path yielded at lines 149-153 (remote) and 162-167 (local-file) for a
\* temporary directory holding `entries` entries of which `subdirs` are
\* directories
YieldedPath(mode, layout) ==
    IF mode = "remote"
    THEN IF layout.entries = 1 /\ layout.subdirs = 1 THEN NestedDir ELSE TempDir
    ELSE IF layout.subdirs > 0 THEN NestedDir ELSE TempDir

\* a context manager that cleans up only after the body returned normally
ContextExit_normal_only(t, d, how) ==
    IF t = "live" /\ how = "return"
    THEN [tmp |-> "released", dirs |-> d \ {TempDir}]
    ELSE [tmp |-> t, dirs |-> d]

\* Leaving `with tempfile.TemporaryDirectory()` (line 137): on return of the
\* body, on SystemExit (lines 143, 146, 160) and on an exception thrown in
\* at the yield.  In mode local-dir no temporary directory was entered.
ContextExit(t, d, how) ==
    IF t = "live"
    THEN [tmp |-> "released", dirs |-> d \ {TempDir}]
    ELSE [tmp |-> t, dirs |-> d]

----------------------------------------------------------------------------
(* Inputs of a run: command lines and package roots *)

Modes == {"remote", "local-dir", "local-file"}

Str_pkg  == <<"p", "k", "g">>
Str_a1   == <<"a", ">", "=", "1">>
Str_b    == <<"b">>
Str_np   == <<"n", "p">>
Str_rq   == <<"r", "q">>
Str_bad  == <<"b", "a", "d">>
Str_v1   == <<"^", "1">>
Str_ge2  == <<">", "=", "2">>
Str_sec  == <<"s", "e", "c">>
Str_fl   == <<"f", "l">>
Str_jj   == <<"j", "j">>

NamePool == {<<>>, Str_pkg, <<"-", "_">>, <<"p", "!">>}

\* parses: urlparse(path) returns (it raises ValueError for an unbalanced
\* bracket in the host part)
Repo(path, scheme, isdir, isfile, suffix, parses) ==
    [path |-> path, scheme |-> scheme, isdir |-> isdir, isfile |-> isfile,
     suffix |-> suffix, parses |-> parses]

RepoPool ==
    { Repo("https://host/pkg.git", "https", FALSE, FALSE, ".git", TRUE),
      Repo("git+https://host/pkg", "git+https", FALSE, FALSE, "", TRUE),
      Repo("ftp://host/pkg", "ftp", FALSE, FALSE, "", TRUE),
      Repo("http://[::1", "", FALSE, FALSE, "", FALSE),
      Repo("/src/pkg", "", TRUE, FALSE, "", TRUE),
      Repo("/nope", "", FALSE, FALSE, "", TRUE),
      Repo("/dl/pkg.zip", "", FALSE, TRUE, ".zip", TRUE),
      Repo("/dl/notes.txt", "", FALSE, TRUE, ".txt", TRUE),
      Repo("/nope.tar.gz", "", FALSE, FALSE, ".tar.gz", TRUE) }

RunFilters == {<<>>, <<"A">>, <<"z">>}

\* filter_is_str: the filter is None or a str (line 46).  --filter has
\* type=str (line 174): the parsed value is always a string
ArgsSpace ==
    [package_name : NamePool, mode : Modes, repo : RepoPool,
     filter_substring : RunFilters, filter_is_str : {TRUE}]

\* One entry of tool.poetry.dependencies.  version is the text the f-string
\* of line 88 formats the `version` value to; extrasJoinable is FALSE when
\* ",".join(extras) raises TypeError.
PoetryEntry(name, kind, hasVersion, version, extras, joinable) ==
    [name |-> name, kind |-> kind, hasVersion |-> hasVersion, version |-> version,
     extras |-> extras, extrasJoinable |-> joinable]

\* state: absent, unopenable (exists, open() fails), malformed (tomllib.load
\* or the lookup of line 73 raises), ok.  projectDeps is the value of
\* project.dependencies, of any TOML type.  A tool.poetry.dependencies that
\* is no table (line 79 raises) is a table whose first entry raises.
Pyproject(state, hasProjectDeps, projectDeps, hasPoetry, poetryDeps) ==
    [state |-> state, hasProjectDeps |-> hasProjectDeps, projectDeps |-> projectDeps,
     hasPoetry |-> hasPoetry, poetryDeps |-> poetryDeps]

\* state: absent, unopenable (exists, ConfigParser.read cannot open it),
\* malformed (read or get raises), ok
\* lines: options.install_requires split by str.splitlines()
SetupCfg(state, hasInstallRequires, lines) ==
    [state |-> state, hasInstallRequires |-> hasInstallRequires, lines |-> lines]

\* state: absent, unopenable, undecodable, syntax_error, ok
SetupPy(state, setupCalls) == [state |-> state, calls |-> setupCalls]

\* an element of an install_requires list: hasValue is hasattr(elt, "value"),
\* value the Python value of elt.value
Elt(hasValue, value) == [hasValue |-> hasValue, value |-> value]

SetupCall(hasList, elts) == [hasList |-> hasList, elts |-> elts]

E_python == PoetryEntry(PythonName, "str", FALSE, <<"^", "3">>, <<>>, TRUE)
E_np     == PoetryEntry(Str_np, "str", FALSE, Str_v1, <<>>, TRUE)
E_rq     == PoetryEntry(Str_rq, "table", TRUE, Str_ge2, <<Str_sec>>, TRUE)
E_bad    == PoetryEntry(Str_bad, "table", FALSE, <<>>, <<>>, FALSE)

NoDeps == List(<<>>)

PyprojectPool ==
    { Pyproject("absent", FALSE, NoDeps, FALSE, <<>>),
      Pyproject("unopenable", FALSE, NoDeps, FALSE, <<>>),
      Pyproject("malformed", FALSE, NoDeps, FALSE, <<>>),
      Pyproject("ok", FALSE, NoDeps, FALSE, <<>>),
      Pyproject("ok", TRUE, List(<<Str(Str_a1), Str(Str_b)>>), TRUE, <<E_np>>),
      Pyproject("ok", TRUE, NoDeps, TRUE, <<E_python, E_np, E_rq>>),
      Pyproject("ok", FALSE, NoDeps, TRUE, <<E_np, E_bad, E_rq>>),
      Pyproject("ok", FALSE, NoDeps, TRUE, <<E_bad, E_np>>),
      Pyproject("ok", TRUE, Str(<<>>), FALSE, <<>>),
      Pyproject("ok", TRUE, PyInt(0), TRUE, <<E_np>>),
      Pyproject("ok", TRUE, PyInt(5), FALSE, <<>>),
      Pyproject("ok", TRUE, Str(<<"A", "b">>), FALSE, <<>>),
      Pyproject("ok", TRUE, List(<<PyInt(1), Str(Str_b)>>), FALSE, <<>>),
      Pyproject("ok", TRUE, Dict(<<Str(Str_a1)>>), FALSE, <<>>) }

SetupCfgPool ==
    { SetupCfg("absent", FALSE, <<>>),
      SetupCfg("unopenable", FALSE, <<>>),
      SetupCfg("malformed", FALSE, <<>>),
      SetupCfg("ok", FALSE, <<>>),
      SetupCfg("ok", TRUE, << <<>>, <<"y", "U+00A0">>,
                              <<" ", "\t", "c", ">", "=", "7">>,
                              <<" ", "#", " ", "x">> >>) }

SetupPyPool ==
    { SetupPy("absent", <<>>),
      SetupPy("unopenable", <<>>),
      SetupPy("undecodable", <<>>),
      SetupPy("syntax_error", <<>>),
      SetupPy("ok", << SetupCall(FALSE, <<>>) >>),
      SetupPy("ok", << SetupCall(TRUE, <<Elt(TRUE, Str(Str_fl)),
                                         Elt(TRUE, Str(Str_jj))>>) >>),
      SetupPy("ok", << SetupCall(TRUE, <<Elt(TRUE, Str(Str_fl)), Elt(TRUE, PyInt(1))>>) >>),
      SetupPy("ok", << SetupCall(TRUE, <<Elt(TRUE, Str(Str_fl)), Elt(FALSE, Str(<<>>)),
                                         Elt(TRUE, Str(Str_jj))>>) >>) }

RunRoots == [pyproject : PyprojectPool, setup_cfg : SetupCfgPool, setup_py : SetupPyPool]

Layouts == {[entries |-> 0, subdirs |-> 0], [entries |-> 1, subdirs |-> 1],
            [entries |-> 2, subdirs |-> 1], [entries |-> 2, subdirs |-> 0]}

NoRoot == [pyproject |-> Pyproject("absent", FALSE, NoDeps, FALSE, <<>>),
           setup_cfg |-> SetupCfg("absent", FALSE, <<>>),
           setup_py  |-> SetupPy("absent", <<>>)]

----------------------------------------------------------------------------
(* The main flow, lines 176-198 *)

Init ==
    /\ pc = "start"
    /\ args \in ArgsSpace
    /\ errors = <<>>
    /\ exitCode = -1
    /\ tmp = "none"
    /\ dirs = IF args.repo.isdir THEN {args.repo.path} ELSE {}
    /\ root = NoRoot
    /\ rootPath = "none"
    /\ requirements = NoDeps
    /\ filtered = NoDeps
    /\ log = <<>>
    /\ calls = [repo_context |-> 0, extract |-> 0]
    /\ req = <<>>
    /\ name1 = <<>>
    /\ name2 = <<>>

\* line 177: validate_args(args), which prints the collected errors and ends
\* the process at line 53 when it collected any; the ValueError of line 32
\* ends the process with a traceback and status 1, nothing reported
Validate ==
    /\ pc = "start"
    /\ LET r == validate_args(args) IN
         /\ errors' = r.errors
         /\ IF r.raised
            THEN pc' = "validate_crashed" /\ exitCode' = 1
            ELSE IF r.errors # <<>>
                 THEN pc' = "exit_validation" /\ exitCode' = 1
                 ELSE pc' = "validated" /\ exitCode' = exitCode
    /\ UNCHANGED <<args, tmp, dirs, root, rootPath, requirements, filtered, log,
                   calls, normVars>>

\* line 185, entering repo_context: mode local-dir yields the path itself
\* (lines 133-134), the other modes first create the temporary directory
\* (line 137)
EnterContext ==
    /\ pc = "validated"
    /\ calls' = [calls EXCEPT !.repo_context = @ + 1]
    /\ IF args.mode = "local-dir"
       THEN /\ rootPath' = args.repo.path
            /\ root' \in RunRoots
            /\ pc' = "in_context"
            /\ UNCHANGED <<tmp, dirs>>
       ELSE /\ tmp' = "live"
            /\ dirs' = dirs \cup {TempDir}
            /\ pc' = "acquired"
            /\ UNCHANGED <<root, rootPath>>
    /\ UNCHANGED <<args, errors, exitCode, requirements, filtered, log, normVars>>

\* subprocess.check_call raises CalledProcessError (git failed),
\* FileNotFoundError (no git) or another OSError (git cannot be executed),
\* which lines 141-146 do not catch; unpack_archive is under `except
\* Exception` (line 158)
MaterializeOutcomes(mode) ==
    IF mode = "remote"
    THEN {"ok", "CalledProcessError", "FileNotFoundError", "OSError"}
    ELSE {"ok", "unpack_error"}

\* lines 138-167: git clone / unpack_archive into the temporary directory,
\* then the yield; a failure prints and calls sys.exit(1) inside the with,
\* an uncaught exception leaves the with and ends the process with a
\* traceback and status 1
Materialize ==
    /\ pc = "acquired"
    /\ \E outcome \in MaterializeOutcomes(args.mode) :
         IF outcome = "ok"
         THEN /\ \E layout \in Layouts : rootPath' = YieldedPath(args.mode, layout)
              /\ root' \in RunRoots
              /\ pc' = "in_context"
              /\ UNCHANGED <<tmp, dirs, exitCode>>
         ELSE IF outcome = "OSError"
         THEN /\ tmp' = ContextExit(tmp, dirs, "exception").tmp
              /\ dirs' = ContextExit(tmp, dirs, "exception").dirs
              /\ pc' = "workspace_crashed"
              /\ exitCode' = 1
              /\ UNCHANGED <<root, rootPath>>
         ELSE /\ tmp' = ContextExit(tmp, dirs, "sys.exit").tmp
              /\ dirs' = ContextExit(tmp, dirs, "sys.exit").dirs
              /\ pc' = "exit_workspace"
              /\ exitCode' = 1
              /\ UNCHANGED <<root, rootPath>>
    /\ UNCHANGED <<args, errors, requirements, filtered, log, calls, normVars>>

\* line 186; an exception leaving extract_direct_dependencies unwinds the
\* with block and ends the process with a traceback and status 1
Extract ==
    /\ pc = "in_context"
    /\ calls' = [calls EXCEPT !.extract = @ + 1]
    /\ LET r == extract_direct_dependencies(root) IN
         /\ log' = r.log
         /\ IF r.raised
            THEN /\ tmp' = ContextExit(tmp, dirs, "exception").tmp
                 /\ dirs' = ContextExit(tmp, dirs, "exception").dirs
                 /\ pc' = "extract_crashed"
                 /\ exitCode' = 1
                 /\ UNCHANGED requirements
            ELSE /\ requirements' = r.requirements
                 /\ pc' = "extracted"
                 /\ UNCHANGED <<tmp, dirs, exitCode>>
    /\ UNCHANGED <<args, errors, root, rootPath, filtered, normVars>>

\* lines 188-190; an exception in the comprehension of line 190 unwinds the
\* with block and ends the process with a traceback and status 1
FilterStep ==
    /\ pc = "extracted"
    /\ LET r == FilterDeps(requirements, args.filter_substring) IN
         IF r.raised
         THEN /\ tmp' = ContextExit(tmp, dirs, "exception").tmp
              /\ dirs' = ContextExit(tmp, dirs, "exception").dirs
              /\ pc' = "filter_crashed"
              /\ exitCode' = 1
              /\ filtered' = r.filtered
         ELSE /\ filtered' = r.filtered
              /\ pc' = "filtered"
              /\ UNCHANGED <<tmp, dirs, exitCode>>
    /\ UNCHANGED <<args, errors, root, rootPath, requirements, log, calls, normVars>>

\* lines 192-198 and the end of the with block: the report is printed, the
\* context is left and the script ends with status 0; the TypeError of line
\* 195 ends the process with a traceback and status 1
Report ==
    /\ pc = "filtered"
    /\ IF ReportRaises(filtered)
       THEN /\ tmp' = ContextExit(tmp, dirs, "exception").tmp
            /\ dirs' = ContextExit(tmp, dirs, "exception").dirs
            /\ pc' = "report_crashed"
            /\ exitCode' = 1
       ELSE /\ tmp' = ContextExit(tmp, dirs, "return").tmp
            /\ dirs' = ContextExit(tmp, dirs, "return").dirs
            /\ pc' = "done"
            /\ exitCode' = 0
    /\ UNCHANGED <<args, errors, root, rootPath, requirements, filtered, log, calls,
                   normVars>>

Next == Validate \/ EnterContext \/ Materialize \/ Extract \/ FilterStep \/ Report

Spec == Init /\ [][Next]_vars

----------------------------------------------------------------------------
(* The Poetry strategy on every small dependency table: a run that stands  *)
(* at line 186 with a package root holding only a pyproject.toml with a    *)
(* tool.poetry.dependencies table and no project.dependencies array (the   *)
(* key is missing, or its value is 0 or the empty string).                 *)

LocalDirArgs ==
    [package_name |-> Str_pkg, mode |-> "local-dir",
     repo |-> Repo("/src/pkg", "", TRUE, FALSE, "", TRUE),
     filter_substring |-> <<>>, filter_is_str |-> TRUE]

PoetryNames == {PythonName, <<"P", "y", "t", "h", "o", "n">>, Str_np, Str_rq}

PoetryValues ==
    { PoetryEntry(<<>>, "str", FALSE, Str_v1, <<>>, TRUE),
      PoetryEntry(<<>>, "table", TRUE, Str_ge2, <<Str_sec>>, TRUE),
      PoetryEntry(<<>>, "table", FALSE, <<>>, <<>>, TRUE),
      PoetryEntry(<<>>, "table", FALSE, <<>>, <<Str_sec, Str_b>>, TRUE),
      PoetryEntry(<<>>, "table", TRUE, Str_ge2, << <<>> >>, TRUE),
      PoetryEntry(<<>>, "table", TRUE, Str_ge2, <<>>, FALSE),
      PoetryEntry(<<>>, "other", FALSE, <<>>, <<>>, TRUE) }

PoetryEntries == {[v EXCEPT !.name = n] : n \in PoetryNames, v \in PoetryValues}

\* the keys of a TOML table are distinct
PoetryTables ==
    {d \in SeqsUpTo(PoetryEntries, MaxDeps) :
        \A i, j \in 1..Len(d) : i # j => d[i].name # d[j].name}

InLocalContext(a) ==
    /\ args = a
    /\ errors = <<>>
    /\ exitCode = -1
    /\ tmp = "none"
    /\ dirs = {LocalDirArgs.repo.path}
    /\ rootPath = LocalDirArgs.repo.path
    /\ log = <<>>
    /\ filtered = NoDeps
    /\ req = <<>>
    /\ name1 = <<>>
    /\ name2 = <<>>

\* what line 74 leaves in `requirements` when the Poetry branch is entered
NoArrayPyprojects(d) ==
    { Pyproject("ok", FALSE, NoDeps, TRUE, d),
      Pyproject("ok", TRUE, PyInt(0), TRUE, d),
      Pyproject("ok", TRUE, Str(<<>>), TRUE, d) }

InitPoetry ==
    /\ pc = "in_context"
    /\ InLocalContext(LocalDirArgs)
    /\ \E d \in PoetryTables : \E p \in NoArrayPyprojects(d) :
          root = [NoRoot EXCEPT !.pyproject = p]
    /\ requirements = NoDeps
    /\ calls = [repo_context |-> 1, extract |-> 0]

NextPoetry == Extract

SpecPoetry == InitPoetry /\ [][NextPoetry]_vars

----------------------------------------------------------------------------
(* The filter step on every small list: a run that stands at line 188 with *)
(* the list a PEP 621 manifest declared.                                   *)

FilterSpecifiers ==
    { Str(<<"r", "e", "q", ">", "=", "2">>),
      Str(Str_fl),
      Str(<<"R", "e", "[", "q", "]">>),
      Str(<<"q", " ", ";", "r">>),
      Str(<<"U+0130", "q">>),
      PyInt(1) }

FilterAlphabet == {"r", "E", "q", "U+0130"}

InitFilter ==
    /\ pc = "extracted"
    /\ \E f \in StringsUpTo(FilterAlphabet, MaxFilterLen) :
          InLocalContext([LocalDirArgs EXCEPT !.filter_substring = f])
    /\ \E l \in SeqsUpTo(FilterSpecifiers, MaxList) : requirements = List(l)
    /\ root = [NoRoot EXCEPT !.pyproject = Pyproject("ok", TRUE, requirements, FALSE, <<>>)]
    /\ calls = [repo_context |-> 1, extract |-> 1]

NextFilter == FilterStep

SpecFilter == InitFilter /\ [][NextFilter]_vars

----------------------------------------------------------------------------
(* The normalizer on its own: get_dep_name applied to a specifier, and     *)
(* applied again to its own result.                                        *)

SpecAlphabet == {"a", "B", " ", "\f", "U+00A0", "[", ";", "~", "=", ">", "<", "!"}

RunIdle ==
    /\ args = LocalDirArgs
    /\ errors = <<>>
    /\ exitCode = -1
    /\ tmp = "none"
    /\ dirs = {LocalDirArgs.repo.path}
    /\ root = NoRoot
    /\ rootPath = "none"
    /\ requirements = NoDeps
    /\ filtered = NoDeps
    /\ log = <<>>
    /\ calls = [repo_context |-> 0, extract |-> 0]

InitNorm ==
    /\ pc = "norm_input"
    /\ req \in StringsUpTo(SpecAlphabet, MaxSpecLen)
    /\ name1 = <<>>
    /\ name2 = <<>>
    /\ RunIdle

Normalize ==
    /\ pc = "norm_input"
    /\ name1' = get_dep_name(req)
    /\ pc' = "norm_once"
    /\ UNCHANGED <<req, name2, args, errors, exitCode, tmp, dirs, root, rootPath,
                   requirements, filtered, log, calls>>

NormalizeAgain ==
    /\ pc = "norm_once"
    /\ name2' = get_dep_name(name1)
    /\ pc' = "norm_twice"
    /\ UNCHANGED <<req, name1, args, errors, exitCode, tmp, dirs, root, rootPath,
                   requirements, filtered, log, calls>>

NextNorm == Normalize \/ NormalizeAgain

SpecNorm == InitNorm /\ [][NextNorm]_vars

----------------------------------------------------------------------------
(* Claims about get_dep_name *)

SpecialChars == {"[", ";"} \cup OperatorChars

\* Position of the first extras marker, environment marker or operator
\* character of s; Len(s) + 1 when s has none.
FirstSpecial(s) ==
    IF \E i \in 1..Len(s) : s[i] \in SpecialChars
    THEN CHOOSE i \in 1..Len(s) :
            /\ s[i] \in SpecialChars
            /\ \A j \in 1..(i - 1) : s[j] \notin SpecialChars
    ELSE Len(s) + 1

\* t is s without its leading and trailing whitespace
IsTrimOf(t, s) ==
    /\ t # <<>> => (t[1] \notin Whitespace /\ t[Len(t)] \notin Whitespace)
    /\ \E i \in 0..Len(s) : \E j \in i..Len(s) :
          /\ t = SubSeq(s, i + 1, j)
          /\ \A k \in 1..i : s[k] \in Whitespace
          /\ \A k \in (j + 1)..Len(s) : s[k] \in Whitespace

\* C8: get_dep_name(s) is s cut at the first `[`, `;` or operator character
\* (~ = > < !) and trimmed of surrounding whitespace; the result holds none
\* of those characters, and a specifier that starts with one of them (no
\* name segment) normalizes to the empty string.
C8_NormalizerTruncatesAndTrims ==
    pc \in {"norm_once", "norm_twice"} =>
        /\ IsTrimOf(name1, SubSeq(req, 1, FirstSpecial(req) - 1))
        /\ \A k \in 1..Len(name1) : name1[k] \notin SpecialChars
        /\ (req # <<>> /\ req[1] \in SpecialChars) => name1 = <<>>

\* a padded specifier with a version operator whose name is non-empty
C8_Witness ==
    /\ pc = "norm_once"
    /\ Len(req) >= 3
    /\ req[1] = " "
    /\ \E i \in 1..Len(req) : req[i] \in OperatorChars
    /\ name1 # <<>>
    /\ name1 # req

\* C9: get_dep_name is idempotent.
C9_NormalizerIdempotent ==
    pc = "norm_twice" => name2 = name1

\* a specifier the first application really changes, normalized twice
C9_Witness ==
    /\ pc = "norm_twice"
    /\ name1 # req
    /\ name1 # <<>>
    /\ name2 = name1

----------------------------------------------------------------------------
(* Claims about extract_direct_dependencies *)

Returned == {"extracted", "filtered", "filter_crashed", "report_crashed", "done"}

Crashed == {"validate_crashed", "workspace_crashed", "extract_crashed",
            "filter_crashed", "report_crashed"}

Terminal == {"done", "exit_validation", "exit_workspace"} \cup Crashed

\* What each manifest source, read on its own, contributes: the entries its
\* strategy appends to an empty list (for a strategy that raises, the
\* entries appended before the error).  PEP 621 contributes the
\* project.dependencies array.
Pep621Yield(r) ==
    IF /\ r.pyproject.state = "ok" /\ r.pyproject.hasProjectDeps
       /\ r.pyproject.projectDeps.type = "list"
    THEN r.pyproject.projectDeps.value ELSE <<>>

PoetryYield(r) ==
    IF r.pyproject.state = "ok" /\ r.pyproject.hasPoetry
    THEN PoetryLoop(r.pyproject.poetryDeps, NoDeps).out.value ELSE <<>>

CfgYield(r) ==
    IF r.setup_cfg.state = "ok" /\ r.setup_cfg.hasInstallRequires
    THEN CfgLines(r.setup_cfg.lines) ELSE <<>>

SetupPyYield(r) ==
    IF r.setup_py.state = "ok"
    THEN VisitCalls(r.setup_py.calls, NoDeps).out.value ELSE <<>>

SourceYields(r) == <<Pep621Yield(r), PoetryYield(r), CfgYield(r), SetupPyYield(r)>>

\* the entries of a returned value: what the report iterates over
ReturnedEntries(v) == IF v.type = "int" THEN <<>> ELSE Elements(v)

\* C1: the entries extract_direct_dependencies returns are those of exactly
\* one manifest source: the first in the order PEP 621, Poetry, setup.cfg,
\* setup.py that yields an entry (none when no source does); entries of two
\* sources are never merged.
C1_FirstYieldingSourceWins ==
    pc \in Returned =>
        LET y == SourceYields(root)
            got == ReturnedEntries(requirements)
        IN  IF \A i \in 1..4 : y[i] = <<>>
            THEN got = <<>>
            ELSE \E i \in 1..4 :
                    /\ y[i] # <<>>
                    /\ \A j \in 1..(i - 1) : y[j] = <<>>
                    /\ got = y[i]

\* the files hold nothing but parse errors: none is unopenable, and
\* project.dependencies, when given, is an array
OnlyParseDefects(r) ==
    /\ r.pyproject.state # "unopenable"
    /\ r.pyproject.hasProjectDeps => r.pyproject.projectDeps.type = "list"
    /\ r.setup_cfg.state # "unopenable"
    /\ r.setup_py.state # "unopenable"

AnyMalformed(r) ==
    \/ r.pyproject.state = "malformed"
    \/ r.setup_cfg.state = "malformed"
    \/ r.setup_py.state \in {"syntax_error", "undecodable"}

\* C2: for a package root with a malformed pyproject.toml, setup.cfg or
\* setup.py the error is caught inside extract_direct_dependencies: the call
\* returns a list, it never ends the run.
C2_ParseErrorsNeverFatal ==
    (calls.extract > 0 /\ AnyMalformed(root) /\ OnlyParseDefects(root))
        => pc # "extract_crashed"

\* C3: a run ends with a non-zero status only when validate_args rejected
\* the arguments or the clone / unpack failed; every run that got a package
\* root ends with 0.
C3_NonZeroOnlyOnValidationOrWorkspace ==
    pc \in Terminal =>
        (exitCode # 0 <=> pc \in {"exit_validation", "validate_crashed",
                                  "exit_workspace", "workspace_crashed"})

\* C10: a strategy that raises part-way counts as having produced nothing:
\* after the Poetry loop raised, the returned list is what setup.cfg and
\* setup.py give; after the setup.py visitor raised, it is empty.
C10_FailedStrategyYieldsNothing ==
    (pc \in Returned /\ OnlyParseDefects(root)) =>
        LET p == root.pyproject
            poetryFailed == /\ p.state = "ok" /\ p.hasPoetry
                            /\ Pep621Yield(root) = <<>>
                            /\ PoetryLoop(p.poetryDeps, NoDeps).raised
            lower == extract_direct_dependencies(
                         [root EXCEPT !.pyproject.state = "absent"]).requirements
            setupPyFailed == /\ root.setup_py.state = "ok"
                             /\ Pep621Yield(root) = <<>>
                             /\ PoetryYield(root) = <<>>
                             /\ CfgYield(root) = <<>>
                             /\ VisitCalls(root.setup_py.calls, NoDeps).raised
        IN  /\ poetryFailed => requirements = lower
            /\ setupPyFailed => requirements = NoDeps

----------------------------------------------------------------------------
(* Claims about the Poetry strategy *)

PoetryTable == root.pyproject.poetryDeps

CommaJoined(xs) ==
    IF xs = <<>> THEN <<>>
    ELSE xs[1] \o Join([i \in 1..(Len(xs) - 1) |-> <<",">> \o xs[i + 1]], <<>>)

\* the specifier the claim gives for an entry with a string or table value
ExpectedSpecifier(e) ==
    IF e.kind = "str" THEN e.name \o e.version
    ELSE e.name
         \o (IF e.extras = <<>> THEN <<>> ELSE <<"[">> \o CommaJoined(e.extras) \o <<"]">>)
         \o (IF e.hasVersion THEN e.version ELSE <<>>)

\* C4: when there is no project.dependencies array, the entries returned
\* for a tool.poetry.dependencies table are one specifier for every entry
\* not named exactly `python`, in declaration order, formatted name +
\* version for a string value and name + [extras] + version (the bracket
\* segment only when there are extras, the version empty when missing) for
\* a table value.
C4_OneSpecifierPerNonPythonEntry ==
    (pc = "extracted" /\ root.pyproject.hasPoetry /\ Pep621Yield(root) = <<>>) =>
        LET kept == SelectSeq(PoetryTable, LAMBDA e : e.name # PythonName)
            got  == ReturnedEntries(requirements)
        IN  /\ Len(got) = Len(kept)
            /\ \A i \in 1..Len(kept) :
                  (i <= Len(got) /\ kept[i].kind \in {"str", "table"})
                      => got[i] = Str(ExpectedSpecifier(kept[i]))

----------------------------------------------------------------------------
(* Claims about validate_args and the main flow *)

\* the checks of validate_args the arguments fail; a URL that cannot be
\* parsed fails the check of the remote URL
FailedChecks(a) ==
    LET bare == SelectSeq(a.package_name, LAMBDA c : c # "-" /\ c # "_")
    IN  {k \in {"name-empty", "name-invalid", "remote-url", "not-a-directory",
                "not-a-file", "unsupported-archive", "filter-not-str"} :
            CASE k = "name-empty" -> Len(a.package_name) = 0
              [] k = "name-invalid" ->
                    /\ Len(a.package_name) > 0
                    /\ \/ bare = <<>>
                       \/ \E i \in 1..Len(bare) : bare[i] \notin NameChars
              [] k = "remote-url" ->
                    /\ a.mode = "remote"
                    /\ (~a.repo.parses \/ a.repo.scheme \notin RemoteSchemes)
              [] k = "not-a-directory" -> a.mode = "local-dir" /\ ~a.repo.isdir
              [] k = "not-a-file" -> a.mode = "local-file" /\ ~a.repo.isfile
              [] k = "unsupported-archive" ->
                    a.mode = "local-file" /\ a.repo.suffix \notin SupportedArchives
              [] k = "filter-not-str" -> ~a.filter_is_str}

\* C5: when any argument is invalid, every failed check is reported (one
\* message each), the process ends with a non-zero status, and neither
\* repo_context nor extract_direct_dependencies is entered; a missing
\* local-dir path is named in its message.
C5_AllValidationErrorsThenExit ==
    (pc # "start" /\ FailedChecks(args) # {}) =>
        /\ pc = "exit_validation"
        /\ exitCode = 1
        /\ {errors[i].kind : i \in 1..Len(errors)} = FailedChecks(args)
        /\ Len(errors) = Cardinality(FailedChecks(args))
        /\ calls.repo_context = 0 /\ calls.extract = 0
        /\ tmp = "none" /\ rootPath = "none" /\ requirements = NoDeps
        /\ (args.mode = "local-dir" /\ ~args.repo.isdir) =>
              \E i \in 1..Len(errors) : errors[i].path = args.repo.path

\* C6: however the run ends, the temporary directory of repo_context is
\* gone; a temporary directory exists only in modes remote and local-file;
\* in mode local-dir the package root is the given path, which stays.
C6_TempDirReleasedLocalDirKept ==
    /\ pc \in Terminal => (tmp # "live" /\ TempDir \notin dirs)
    /\ tmp # "none" => args.mode \in {"remote", "local-file"}
    /\ (args.mode = "local-dir" /\ rootPath # "none") =>
          /\ rootPath = args.repo.path
          /\ args.repo.path \in dirs
          /\ tmp = "none"

\* an exception raised while the package root of a clone / archive is
\* analysed, after which the temporary directory is gone
C6_Witness ==
    /\ pc = "extract_crashed"
    /\ tmp = "released"
    /\ TempDir \notin dirs

----------------------------------------------------------------------------
(* Claims about the filter step *)

\* the bare name of the specifier q contains f, both taken in lower case
NameContainsIgnoringCase(q, f) ==
    LET n == Lower(get_dep_name(q))
        g == Lower(f)
    IN  \E k \in 0..(Len(n) - Len(g)) : \A j \in 1..Len(g) : n[k + j] = g[j]

\* C7: when the filter step produces a display list, with a non-empty
\* filter it is the subsequence of the extracted list, in the original
\* order, of exactly the entries whose bare name contains the filter
\* case-insensitively; with an empty filter it is the extracted list itself.
C7_FilterIsMatchingSubsequence ==
    pc = "filtered" =>
        LET f == args.filter_substring
            given == Elements(requirements)
            shown == filtered.value
            M == {i \in 1..Len(given) : NameContainsIgnoringCase(given[i].value, f)}
        IN  IF f = <<>>
            THEN filtered = requirements
            ELSE /\ filtered.type = "list"
                 /\ Len(shown) = Cardinality(M)
                 /\ \E idx \in [1..Len(shown) -> M] :
                       /\ \A a, b \in 1..Len(shown) : a < b => idx[a] < idx[b]
                       /\ \A a \in 1..Len(shown) : shown[a] = given[idx[a]]

\* a filter with an upper-case letter that keeps some entries and drops others
C7_Witness ==
    /\ pc = "filtered"
    /\ args.filter_substring # <<>>
    /\ Lower(args.filter_substring) # args.filter_substring
    /\ filtered.value # <<>>
    /\ Len(filtered.value) < Len(requirements.value)

====
